---------------------------- MODULE Spec2Model ----------------------------
(***************************************************************************)
(* Model of the retrieval-augmented answer pipeline of backend/rag.py and  *)
(* backend/main.py.                                                        *)
(*                                                                         *)
(* Strings are sequences of one-character strings, so that strip, split,   *)
(* substring search and join are computed, not assumed.                    *)
(*                                                                         *)
(* Specifications:                                                         *)
(*   Spec          the query handler (inquiry) running concurrently with   *)
(*                 the offline ingestion (ingest_faqs) over the store file *)
(*   SpecChunk     _chunk_markdown / _clean applied to bounded documents   *)
(*   SpecRetrieve  retrieve's ranking and build_context_snippets applied   *)
(*                 to bounded stores                                       *)
(***************************************************************************)
EXTENDS Integers, Sequences, FiniteSets, TLC

VARIABLES file, ing, req, fn

vars == <<file, ing, req, fn>>

---------------------------------------------------------------------------
(* Bounds of the model.                                                    *)

MaxDocLen == 6

MaxChars == 4

MaxStore == 3

MaxK == 3

MaxRuns == 2

---------------------------------------------------------------------------
(* Characters and Python string primitives.                                *)

NL == "\n"

CR == "\r"

NBSP == "NBSP"

Whitespace == {" ", NL, CR, "\t", NBSP}

Min(a, b) == IF a < b THEN a ELSE b

RECURSIVE lstrip(_)
lstrip(s) ==
  IF s # <<>> /\ Head(s) \in Whitespace THEN lstrip(Tail(s)) ELSE s

RECURSIVE rstrip(_)
rstrip(s) ==
  IF s # <<>> /\ s[Len(s)] \in Whitespace
  THEN rstrip(SubSeq(s, 1, Len(s) - 1))
  ELSE s

strip(s) == rstrip(lstrip(s))

(* s.split(sep) for a one-character separator: always at least one piece.  *)
RECURSIVE SplitAcc(_, _, _, _)
SplitAcc(s, sep, done, cur) ==
  IF s = <<>> THEN Append(done, cur)
  ELSE IF Head(s) = sep THEN SplitAcc(Tail(s), sep, Append(done, cur), <<>>)
  ELSE SplitAcc(Tail(s), sep, done, Append(cur, Head(s)))

split(s, sep) == SplitAcc(s, sep, <<>>, <<>>)

startswith(s, c) == s # <<>> /\ Head(s) = c

(* sep.join(items)                                                         *)
RECURSIVE join(_, _)
join(items, sep) ==
  IF items = <<>> THEN <<>>
  ELSE IF Len(items) = 1 THEN items[1]
  ELSE items[1] \o sep \o join(Tail(items), sep)

(* needle in hay                                                           *)
contains(hay, needle) ==
  \E i \in 1..(Len(hay) - Len(needle) + 1) :
     SubSeq(hay, i, i + Len(needle) - 1) = needle

---------------------------------------------------------------------------
(* rag.py: _clean and _chunk_markdown.                                     *)

(* re.sub(r"\s+", " ", text): every maximal run of whitespace becomes one  *)
(* space.                                                                  *)
RECURSIVE CollapseWs(_, _)
CollapseWs(s, inRun) ==
  IF s = <<>> THEN <<>>
  ELSE IF Head(s) \in Whitespace
       THEN (IF inRun THEN <<>> ELSE <<" ">>) \o CollapseWs(Tail(s), TRUE)
       ELSE <<Head(s)>> \o CollapseWs(Tail(s), FALSE)

(* text.replace(NBSP, " ").replace("\r", "")                               *)
RECURSIVE CleanReplace(_)
CleanReplace(s) ==
  IF s = <<>> THEN <<>>
  ELSE IF Head(s) = NBSP THEN <<" ">> \o CleanReplace(Tail(s))
  ELSE IF Head(s) = CR THEN CleanReplace(Tail(s))
  ELSE <<Head(s)>> \o CleanReplace(Tail(s))

clean(text) == strip(CollapseWs(CleanReplace(text), FALSE))

IsHeading(line) == startswith(strip(line), "#")

(* One iteration of the loop over md.split("\n") without the heading flush *)
ChunkStep_NoHeadingFlush(parts, buf, line, max_chars) ==
  LET s2 == IF Len(buf) + Len(line) + 1 > max_chars
            THEN [parts |-> Append(parts, strip(buf)), buf |-> <<>>]
            ELSE [parts |-> parts, buf |-> buf]
  IN  [parts |-> s2.parts, buf |-> s2.buf \o line \o <<NL>>]

(* One iteration of the loop over md.split("\n").                          *)
ChunkStep(parts, buf, line, max_chars) ==
  LET s1 == IF IsHeading(line) /\ buf # <<>>
            THEN [parts |-> Append(parts, strip(buf)), buf |-> <<>>]
            ELSE [parts |-> parts, buf |-> buf]
      s2 == IF Len(s1.buf) + Len(line) + 1 > max_chars
            THEN [parts |-> Append(s1.parts, strip(s1.buf)), buf |-> <<>>]
            ELSE s1
  IN  [parts |-> s2.parts, buf |-> s2.buf \o line \o <<NL>>]

RECURSIVE ChunkLoop(_, _, _, _)
ChunkLoop(lines, parts, buf, max_chars) ==
  IF lines = <<>> THEN [parts |-> parts, buf |-> buf]
  ELSE LET s == ChunkStep(parts, buf, Head(lines), max_chars)
       IN  ChunkLoop(Tail(lines), s.parts, s.buf, max_chars)

SelectNonBlank(parts) == SelectSeq(parts, LAMBDA p : strip(p) # <<>>)

chunk_markdown(md, max_chars) ==
  LET r     == ChunkLoop(split(md, NL), <<>>, <<>>, max_chars)
      parts == IF strip(r.buf) # <<>> THEN Append(r.parts, strip(r.buf))
               ELSE r.parts
  IN  SelectNonBlank(parts)

(* chunks = [_clean(c) for c in _chunk_markdown(md)]                       *)
CleanAll(chunks) == [i \in 1..Len(chunks) |-> clean(chunks[i])]

---------------------------------------------------------------------------
(* rag.py: _cosine, retrieve's ranking, build_context_snippets.            *)

(* Embedding vectors the external service may return (two dimensions).     *)
Vectors == {<<1, 0>>, <<0, 0>>, <<-1, 1>>}

Dot(a, b) == a[1] * b[1] + a[2] * b[2]

(* _cosine(a, b) = dot(a, b) / ((|a| * |b|) or 1e-9).  The score is kept   *)
(* as the exact fraction num/den of sign(dot) * dot^2 / (|a|^2 * |b|^2),   *)
(* which orders pairs of vectors exactly as the cosine does; a zero norm   *)
(* gives dot = 0 over the epsilon, that is 0.                              *)
cosine(a, b) ==
  LET d  == Dot(a, b)
      nn == Dot(a, a) * Dot(b, b)
  IN  IF nn = 0 THEN [num |-> 0, den |-> 1]
      ELSE [num |-> IF d < 0 THEN -(d * d) ELSE d * d, den |-> nn]

ScoreGE(s, t) == s.num * t.den >= t.num * s.den

ScoreGT(s, t) == s.num * t.den > t.num * s.den

ScoreEQ(s, t) == s.num * t.den = t.num * s.den

InsertAt(seq, p, x) ==
  SubSeq(seq, 1, p) \o <<x>> \o SubSeq(seq, p + 1, Len(seq))

(* An unstable descending insertion: x goes before its equals.             *)
InsertDesc_Unstable(sorted, x) ==
  InsertAt(sorted,
           Cardinality({i \in 1..Len(sorted) : ScoreGT(sorted[i].score, x.score)}),
           x)

(* scored.sort(key=lambda x: x[1], reverse=True) is a stable sort: an      *)
(* element is placed after every element whose score is >= its own.        *)
InsertDesc(sorted, x) ==
  InsertAt(sorted,
           Cardinality({i \in 1..Len(sorted) : ScoreGE(sorted[i].score, x.score)}),
           x)

RECURSIVE SortDesc(_, _)
SortDesc(todo, sorted) ==
  IF todo = <<>> THEN sorted
  ELSE SortDesc(Tail(todo), InsertDesc(sorted, Head(todo)))

(* The body of retrieve after the store is loaded and the query embedded:  *)
(* score every record, sort, slice [:k].                                   *)
Rank(records, q, k) ==
  LET scored == [i \in 1..Len(records) |->
                   [text |-> records[i].text,
                    score |-> cosine(q, records[i].embedding)]]
      sorted == SortDesc(scored, <<>>)
  IN  SubSeq(sorted, 1, Min(k, Len(sorted)))

PREVIEW_CHARS == 80

Digit(d) == CASE d = 0 -> "0" [] d = 1 -> "1" [] d = 2 -> "2" [] d = 3 -> "3"
              [] d = 4 -> "4" [] d = 5 -> "5" [] d = 6 -> "6" [] d = 7 -> "7"
              [] d = 8 -> "8" [] d = 9 -> "9"

RECURSIVE Decimal(_)
Decimal(n) ==
  IF n < 10 THEN <<Digit(n)>> ELSE Append(Decimal(n \div 10), Digit(n % 10))

(* tag = f"[{i}]"                                                          *)
Tag(i) == <<"[">> \o Decimal(i) \o <<"]">>

(* text.split("\n")[0][:80].strip()                                        *)
Preview(text) ==
  LET first == split(text, NL)[1]
  IN  strip(SubSeq(first, 1, Min(PREVIEW_CHARS, Len(first))))

(* enumerate(snips, start=0): labels off by one.                           *)
build_context_snippets_From0(snips) ==
  [context_block |->
      join([i \in 1..Len(snips) |-> Tag(i - 1) \o <<" ">> \o snips[i].text],
           <<NL, NL>>),
   cites |-> [i \in 1..Len(snips) |->
                 Tag(i - 1) \o <<" ">> \o Preview(snips[i].text)]]

build_context_snippets(snips) ==
  [context_block |->
      join([i \in 1..Len(snips) |-> Tag(i) \o <<" ">> \o snips[i].text],
           <<NL, NL>>),
   cites |-> [i \in 1..Len(snips) |->
                 Tag(i) \o <<" ">> \o Preview(snips[i].text)]]

---------------------------------------------------------------------------
(* main.py: scope gate, text normalisation, fixed replies.                 *)

ALLOWED_KEYWORDS ==
  << <<"s", "i", "g", "n", "i", "f", "i", "e", "r">>,
     <<"s", "l", "e", "e", "p">>,
     <<"a", "p", "n", "e", "a">>,
     <<"d", "e", "v", "i", "c", "e">>,
     <<"t", "h", "e", "r", "a", "p", "y">>,
     <<"t", "o", "n", "g", "u", "e">>,
     <<"u", "s", "a", "g", "e">>,
     <<"u", "s", "e">>,
     <<"s", "e", "t", "u", "p">>,
     <<"i", "n", "s", "t", "a", "l", "l">>,
     <<"p", "a", "i", "r">>,
     <<"c", "h", "a", "r", "g", "e">>,
     <<"b", "a", "t", "t", "e", "r", "y">>,
     <<"c", "l", "e", "a", "n">>,
     <<"m", "a", "i", "n", "t", "a", "i", "n">>,
     <<"m", "a", "i", "n", "t", "e", "n", "a", "n", "c", "e">>,
     <<"s", "u", "p", "p", "o", "r", "t">>,
     <<"a", "p", "p", "o", "i", "n", "t", "m", "e", "n", "t">>,
     <<"b", "o", "o", "k">>,
     <<"r", "e", "s", "c", "h", "e", "d", "u", "l", "e">>,
     <<"c", "a", "n", "c", "e", "l">>,
     <<"h", "o", "u", "r", "s">>,
     <<"c", "o", "n", "t", "a", "c", "t">>,
     <<"w", "a", "r", "r", "a", "n", "t", "y">>,
     <<"r", "e", "p", "l", "a", "c", "e", "m", "e", "n", "t">>,
     <<"s", "p", "a", "r", "e">>,
     <<"p", "a", "r", "t", "s">>,
     <<"m", "a", "n", "u", "a", "l">>,
     <<"g", "u", "i", "d", "e">>,
     <<"t", "r", "o", "u", "b", "l", "e", "s", "h", "o", "o", "t">>,
     <<"e", "r", "r", "o", "r">>,
     <<"i", "s", "s", "u", "e">> >>

UPPER == <<"A", "B", "C", "D", "E", "F", "G", "H", "I", "J", "K", "L", "M", "N", "O", "P", "Q", "R", "S", "T", "U", "V", "W", "X", "Y", "Z">>

LOWER == <<"a", "b", "c", "d", "e", "f", "g", "h", "i", "j", "k", "l", "m", "n", "o", "p", "q", "r", "s", "t", "u", "v", "w", "x", "y", "z">>

LowerChar(c) ==
  IF \E i \in 1..Len(UPPER) : UPPER[i] = c
  THEN LOWER[CHOOSE i \in 1..Len(UPPER) : UPPER[i] = c]
  ELSE c

(* q.lower()                                                               *)
lower(s) == [i \in 1..Len(s) |-> LowerChar(s[i])]

(* in_scope: any(k in ql for k in ALLOWED_KEYWORDS), a substring test.     *)
in_scope(q) ==
  LET ql == lower(q)
  IN  \E n \in 1..Len(ALLOWED_KEYWORDS) : contains(ql, ALLOWED_KEYWORDS[n])

LSQUO == "LSQUO"

RSQUO == "RSQUO"

LDQUO == "LDQUO"

RDQUO == "RDQUO"

NormalizeChar(c) ==
  CASE c = RSQUO -> "'"
    [] c = LSQUO -> "'"
    [] c = LDQUO -> "\""
    [] c = RDQUO -> "\""
    [] c = NBSP  -> " "
    [] OTHER     -> c

(* normalize_text: replace curly quotes and NBSP, then strip.              *)
normalize_text(s) == strip([i \in 1..Len(s) |-> NormalizeChar(s[i])])

ANS_EMPTY == <<"Please enter a question about the Signifier device or support.">>

ANS_SCOPE_REFUSAL ==
  <<"I can help with the Signifier sleep therapy device and support only (setup, usage, troubleshooting, appointments). For other topics, please contact your clinician.">>

DEMO_REPLY ==
  <<"I can help with the Signifier device and support only. For medical or out-of-scope questions, please contact your clinician.">>

TOP_K == 4

MAX_CHARS == 900

---------------------------------------------------------------------------
(* Inputs of the system: questions, completions, FAQ documents.            *)

Questions ==
  { <<>>,
    <<" ", " ">>,
    <<"h", "e", "l", "l", "o">>,
    <<"b", "e", "c", "a", "u", "s", "e">>,
    <<"C", "h", "a", "r", "g", "e", " ", "i", "t", " ">>,
    <<"t", "h", "e", " ", "d", "e", "v", "i", "s", "e">> }

(* chat.choices[0].message.content: None or "", or a text with curly       *)
(* quotes and surrounding whitespace.                                      *)
GenContents == {<<>>, <<NBSP, LDQUO, "o", "k", RDQUO, " ">>}

GenErrors == {<<"APIConnectionError">>}

(* Contents of the FAQ file; "missing" when the file does not exist.       *)
FaqDocs == {<<"a", NL, "b">>, <<"#", "a", NL, "#", "b", NL>>}

---------------------------------------------------------------------------
(* The store file: json.dump writes the object piece by piece; json.load   *)
(* accepts only a complete object.                                         *)

Serialize(records) ==
  <<[kind |-> "hdr"]>>
    \o [i \in 1..Len(records) |->
          [kind |-> "rec", id |-> records[i].id, text |-> records[i].text,
           embedding |-> records[i].embedding]]
    \o <<[kind |-> "end"]>>

(* json.load succeeds.                                                     *)
Parses(data) ==
  /\ Len(data) >= 2
  /\ data[1].kind = "hdr"
  /\ data[Len(data)].kind = "end"

(* store["records"]                                                        *)
LoadRecords(data) == SubSeq(data, 2, Len(data) - 1)

---------------------------------------------------------------------------
(* State: the store file, the ingestion process, the request in flight.    *)

(* STORE_PATH does not exist.                                              *)
NoFile == [exists |-> FALSE, data |-> <<>>]

NoReply == [f \in {} |-> <<>>]

IngIdle ==
  [pc |-> "idle", run |-> 0, chunks |-> <<>>, records |-> <<>>,
   pending |-> <<>>, snapshot |-> NoFile]

ReqIdle ==
  [pc |-> "idle", raw |-> <<>>, q |-> <<>>, decision |-> "none",
   didRead |-> FALSE, observed |-> <<>>, records |-> <<>>,
   context_block |-> <<>>, cites_list |-> <<>>,
   embedCalls |-> 0, genCalls |-> 0, genFailed |-> FALSE,
   replies |-> 0, outcome |-> "none", reply |-> NoReply]

FnNone == [op |-> "none"]

---------------------------------------------------------------------------
(* inquiry (main.py) with retrieve (rag.py) inlined at its call.           *)

(* The scope gate without its early return: an out-of-scope question goes  *)
(* on to retrieval.                                                        *)
inquiry_entry_NoScopeReturn(raw) ==
  LET q == strip(raw)
  IN  IF q = <<>>
      THEN [ReqIdle EXCEPT !.pc = "done", !.raw = raw, !.q = q,
                           !.decision = "Empty", !.replies = 1,
                           !.outcome = "reply",
                           !.reply = [answer |-> ANS_EMPTY]]
      ELSE [ReqIdle EXCEPT !.pc = "isfile", !.raw = raw, !.q = q,
                           !.decision = IF in_scope(q) THEN "Proceed"
                                        ELSE "OutOfScope"]

(* Lines 63-73: strip, the empty reply, the scope refusal.                 *)
inquiry_entry(raw) ==
  LET q == strip(raw)
  IN  IF q = <<>>
      THEN [ReqIdle EXCEPT !.pc = "done", !.raw = raw, !.q = q,
                           !.decision = "Empty", !.replies = 1,
                           !.outcome = "reply",
                           !.reply = [answer |-> ANS_EMPTY]]
      ELSE IF ~in_scope(q)
      THEN [ReqIdle EXCEPT !.pc = "done", !.raw = raw, !.q = q,
                           !.decision = "OutOfScope", !.replies = 1,
                           !.outcome = "reply",
                           !.reply = [answer |-> ANS_SCOPE_REFUSAL]]
      ELSE [ReqIdle EXCEPT !.pc = "isfile", !.raw = raw, !.q = q,
                           !.decision = "Proceed"]

(* No except clause around retrieval: the exception leaves the handler.    *)
OnRetrievalError_Raise(r) ==
  [r EXCEPT !.pc = "done", !.outcome = "exception"]

(* Lines 81-84: except Exception -> no context, no citations.              *)
OnRetrievalError(r) ==
  [r EXCEPT !.pc = "generate", !.context_block = <<>>, !.cites_list = <<>>]

(* Line 80 after retrieve returned results.                                *)
WithContext(r, results) ==
  LET b == build_context_snippets(results)
  IN  [r EXCEPT !.pc = "generate", !.context_block = b.context_block,
                !.cites_list = b.cites]

Inquiry_Receive(raw) ==
  /\ req.pc = "idle"
  /\ req' = inquiry_entry(raw)
  /\ UNCHANGED <<file, ing, fn>>

(* retrieve: os.path.isfile(STORE_PATH); no store gives no results.        *)
Retrieve_IsFile ==
  /\ req.pc = "isfile"
  /\ req' = IF file.exists THEN [req EXCEPT !.pc = "read"]
            ELSE WithContext(req, <<>>)
  /\ UNCHANGED <<file, ing, fn>>

(* retrieve: open and json.load; a file that does not parse raises.        *)
Retrieve_Read ==
  /\ req.pc = "read"
  /\ LET r == [req EXCEPT !.didRead = TRUE, !.observed = file.data]
     IN  req' = IF Parses(file.data)
                THEN [r EXCEPT !.pc = "embed", !.records = LoadRecords(file.data)]
                ELSE OnRetrievalError(r)
  /\ UNCHANGED <<file, ing, fn>>

(* retrieve: embed([query]) answers; score, sort, slice.                   *)
Retrieve_EmbedOk(qv) ==
  /\ req.pc = "embed"
  /\ req' = WithContext([req EXCEPT !.embedCalls = @ + 1],
                        Rank(req.records, qv, TOP_K))
  /\ UNCHANGED <<file, ing, fn>>

(* retrieve: embed([query]) raises.                                        *)
Retrieve_EmbedFail ==
  /\ req.pc = "embed"
  /\ req' = OnRetrievalError([req EXCEPT !.embedCalls = @ + 1])
  /\ UNCHANGED <<file, ing, fn>>

(* Lines 93-101: the completion call answers.                              *)
Generate_Ok(content) ==
  /\ req.pc = "generate"
  /\ req' = [req EXCEPT !.pc = "done", !.genCalls = @ + 1,
                        !.replies = @ + 1, !.outcome = "reply",
                        !.reply = [answer |-> normalize_text(content),
                                   citations |-> req.cites_list]]
  /\ UNCHANGED <<file, ing, fn>>

(* Lines 102-107: the completion call raises.                              *)
Generate_Fail(err) ==
  /\ req.pc = "generate"
  /\ req' = [req EXCEPT !.pc = "done", !.genCalls = @ + 1,
                        !.genFailed = TRUE,
                        !.replies = @ + 1, !.outcome = "reply",
                        !.reply = [answer |-> DEMO_REPLY,
                                   note |-> <<"demo_fallback">>,
                                   error |-> err,
                                   citations |-> req.cites_list]]
  /\ UNCHANGED <<file, ing, fn>>

(* The reply is sent; the next request may arrive.                         *)
Inquiry_Return ==
  /\ req.pc = "done"
  /\ req' = ReqIdle
  /\ UNCHANGED <<file, ing, fn>>

---------------------------------------------------------------------------
(* ingest_faqs (rag.py), one run at a time.                                *)

(* Line 36-37: the FAQ file is missing.                                    *)
Ingest_StartMissing ==
  /\ ing.pc = "idle" /\ ing.run < MaxRuns
  /\ ing' = [ing EXCEPT !.pc = "failed", !.run = @ + 1, !.snapshot = file]
  /\ UNCHANGED <<file, req, fn>>

(* Lines 38-40: read and chunk the document.                               *)
Ingest_Start(md) ==
  /\ ing.pc = "idle" /\ ing.run < MaxRuns
  /\ ing' = [ing EXCEPT !.pc = "embed", !.run = @ + 1, !.snapshot = file,
                        !.chunks = CleanAll(chunk_markdown(md, MAX_CHARS))]
  /\ UNCHANGED <<file, req, fn>>

(* Lines 41-44: the embedding call answers; records get fresh ids.         *)
Ingest_EmbedOk(vecs) ==
  /\ ing.pc = "embed"
  /\ DOMAIN vecs = 1..Len(ing.chunks)
  /\ ing' = [ing EXCEPT !.pc = "open",
                        !.records = [i \in 1..Len(ing.chunks) |->
                                       [id |-> <<ing.run, i>>,
                                        text |-> ing.chunks[i],
                                        embedding |-> vecs[i]]]]
  /\ UNCHANGED <<file, req, fn>>

(* Line 41: the embedding call raises.                                     *)
Ingest_EmbedFail ==
  /\ ing.pc = "embed"
  /\ ing' = [ing EXCEPT !.pc = "failed"]
  /\ UNCHANGED <<file, req, fn>>

(* Line 46: open(store_path, "w") creates or truncates the store in place. *)
Ingest_Open ==
  /\ ing.pc = "open"
  /\ file' = [exists |-> TRUE, data |-> <<>>]
  /\ ing' = [ing EXCEPT !.pc = "write", !.pending = Serialize(ing.records)]
  /\ UNCHANGED <<req, fn>>

(* Line 47: json.dump writes the next piece; the file is closed after the  *)
(* last.                                                                   *)
Ingest_Write ==
  /\ ing.pc = "write" /\ ing.pending # <<>>
  /\ file' = [file EXCEPT !.data = Append(@, Head(ing.pending))]
  /\ ing' = [ing EXCEPT !.pending = Tail(@),
                        !.pc = IF Tail(ing.pending) = <<>> THEN "done" ELSE "write"]
  /\ UNCHANGED <<req, fn>>

(* Line 47: the write is interrupted (disk full, I/O error, kill).         *)
Ingest_WriteFail ==
  /\ ing.pc = "write" /\ ing.pending # <<>>
  /\ ing' = [ing EXCEPT !.pc = "failed"]
  /\ UNCHANGED <<file, req, fn>>

(* The run has returned or raised; a later run may start.                  *)
Ingest_Reset ==
  /\ ing.pc \in {"done", "failed"}
  /\ ing' = [IngIdle EXCEPT !.run = ing.run]
  /\ UNCHANGED <<file, req, fn>>

Init ==
  /\ file = NoFile
  /\ ing = IngIdle
  /\ req = ReqIdle
  /\ fn = FnNone

Next ==
  \/ \E raw \in Questions : Inquiry_Receive(raw)
  \/ Retrieve_IsFile
  \/ Retrieve_Read
  \/ \E qv \in Vectors : Retrieve_EmbedOk(qv)
  \/ Retrieve_EmbedFail
  \/ \E content \in GenContents : Generate_Ok(content)
  \/ \E err \in GenErrors : Generate_Fail(err)
  \/ Inquiry_Return
  \/ Ingest_StartMissing
  \/ \E md \in FaqDocs : Ingest_Start(md)
  \/ \E vecs \in UNION {[1..n -> Vectors] : n \in 0..2} : Ingest_EmbedOk(vecs)
  \/ Ingest_EmbedFail
  \/ Ingest_Open
  \/ Ingest_Write
  \/ Ingest_WriteFail
  \/ Ingest_Reset

Spec == Init /\ [][Next]_vars

---------------------------------------------------------------------------
(* Behaviour the specification describes and the source does not have:     *)
(* token-based scope matching with a similarity cutoff, and the topic-hint *)
(* lookup of the fallback chain.  Used only to state C8 and C9.            *)

Letters == {LOWER[i] : i \in 1..Len(LOWER)}

(* Lowercase alphabetic word tokens: maximal runs of letters.              *)
RECURSIVE TokenizeAcc(_, _, _)
TokenizeAcc(s, done, cur) ==
  IF s = <<>> THEN (IF cur = <<>> THEN done ELSE Append(done, cur))
  ELSE IF Head(s) \in Letters
       THEN TokenizeAcc(Tail(s), done, Append(cur, Head(s)))
       ELSE TokenizeAcc(Tail(s), IF cur = <<>> THEN done ELSE Append(done, cur), <<>>)

Tokenize(q) == TokenizeAcc(lower(q), <<>>, <<>>)

Max(a, b) == IF a > b THEN a ELSE b

(* One row of the longest-common-subsequence table.                        *)
RECURSIVE LcsRow(_, _, _, _)
LcsRow(prev, c, b, cur) ==
  LET j == Len(cur)
  IN  IF j > Len(b) THEN cur
      ELSE LcsRow(prev, c, b,
                  Append(cur, IF b[j] = c THEN prev[j] + 1
                              ELSE Max(prev[j + 1], cur[j])))

RECURSIVE LcsRows(_, _, _)
LcsRows(a, b, prev) ==
  IF a = <<>> THEN prev[Len(prev)]
  ELSE LcsRows(Tail(a), b, LcsRow(prev, Head(a), b, <<0>>))

LcsLen(a, b) == LcsRows(a, b, [j \in 1..(Len(b) + 1) |-> 0])

FUZZY_CUTOFF_PCT == 76

(* Similarity ratio 2 * matches / (len(a) + len(b)) >= cutoff.             *)
Similar(a, b) == 200 * LcsLen(a, b) >= FUZZY_CUTOFF_PCT * (Len(a) + Len(b))

(* Some token equals an allowed-topic word or is within the cutoff of one. *)
TokenInScope(q) ==
  LET toks == Tokenize(q)
  IN  \E t \in 1..Len(toks), n \in 1..Len(ALLOWED_KEYWORDS) :
         \/ toks[t] = ALLOWED_KEYWORDS[n]
         \/ Similar(toks[t], ALLOWED_KEYWORDS[n])

(* A topic-hint table: pattern, hint text.  The specification names no     *)
(* pattern; any non-empty table decides C8 the same way.                   *)
HINT_PATTERNS ==
  << [pattern |-> <<"c", "h", "a", "r", "g">>,
      hint    |-> <<"Topic hint: charging">>] >>

(* The hint of the first pattern found in the question, or the empty text. *)
topic_hint(q) ==
  LET ql   == lower(q)
      hits == {n \in 1..Len(HINT_PATTERNS) : contains(ql, HINT_PATTERNS[n].pattern)}
  IN  IF hits = {} THEN <<>>
      ELSE HINT_PATTERNS[CHOOSE n \in hits : \A m \in hits : n <= m].hint

---------------------------------------------------------------------------
(* Claims checked under Spec.                                              *)

IsText(t) == t \in Seq(STRING)

PcRank(pc) ==
  CASE pc = "idle" -> 0 [] pc = "isfile" -> 1 [] pc = "read" -> 2
    [] pc = "embed" -> 3 [] pc = "generate" -> 4 [] pc = "done" -> 5

(* Every step of a request in flight moves it strictly forward, so a       *)
(* request ends after at most five steps.                                  *)
RequestAdvances ==
  [][req.pc # "done" => PcRank(req'.pc) > PcRank(req.pc)]_req

(* C1: whatever the store, the embedding call and the completion call do,  *)
(* no exception leaves inquiry, and a finished request has produced        *)
(* exactly one reply, which carries a textual answer field; a request in   *)
(* flight has not replied yet.                                             *)
C1_AlwaysAnswers ==
  /\ req.outcome # "exception"
  /\ (req.pc # "done" => req.replies = 0 /\ req.outcome = "none")
  /\ (req.pc = "done" =>
        /\ req.outcome = "reply"
        /\ req.replies = 1
        /\ "answer" \in DOMAIN req.reply
        /\ IsText(req.reply.answer))

(* The store file was half written when the request read it, and the       *)
(* completion call failed too: the request still ends in a reply.          *)
C1_Witness ==
  /\ req.pc = "done"
  /\ req.didRead /\ ~Parses(req.observed)
  /\ req.genFailed

(* C2: every read of the store by a retrieval request observes a complete  *)
(* store (the previous one or the new one), never an empty or truncated    *)
(* file.                                                                   *)
C2_ReadersSeeCompleteStore ==
  req.didRead => Parses(req.observed)

(* C3: a failed ingestion run leaves the store file exactly as it was      *)
(* when the run started.                                                   *)
C3_FailedIngestLeavesStore ==
  ing.pc = "failed" => file = ing.snapshot

(* C6: a request whose decision is Empty or OutOfScope makes no call to    *)
(* the embedding or the completion service and never reads the store; its  *)
(* reply is the fixed text and has no citations field.  An external call   *)
(* happens only after the decision Proceed.  The decision is Empty exactly *)
(* for a question that is blank after trimming.                            *)
C6_NoExternalCallBeforeProceed ==
  /\ (req.embedCalls > 0 \/ req.genCalls > 0 \/ req.didRead)
        => req.decision = "Proceed"
  /\ (req.pc # "idle" => (req.decision = "Empty" <=> strip(req.raw) = <<>>))
  /\ (req.decision \in {"Empty", "OutOfScope"} =>
        /\ req.pc = "done"
        /\ req.embedCalls = 0 /\ req.genCalls = 0
        /\ DOMAIN req.reply = {"answer"}
        /\ req.reply.answer = IF req.decision = "Empty" THEN ANS_EMPTY
                              ELSE ANS_SCOPE_REFUSAL)

(* A question refused as out of scope while a complete store is on disk.   *)
C6_Witness ==
  /\ req.pc = "done"
  /\ req.decision = "OutOfScope"
  /\ file.exists /\ Parses(file.data)

(* C7: a reply has citations attached only when the context block was      *)
(* non-empty.                                                              *)
C7_CitationsOnlyWithContext ==
  (req.pc = "done" /\ req.context_block = <<>>)
     => "citations" \notin DOMAIN req.reply

(* C8: when the completion call fails, the answer is the topic hint if the *)
(* question matches a hint pattern, and the generic apology otherwise.     *)
C8_FallbackHintChain ==
  (req.pc = "done" /\ req.genFailed) =>
     /\ req.outcome = "reply"
     /\ req.reply.answer = IF topic_hint(req.q) # <<>> THEN topic_hint(req.q)
                           ELSE DEMO_REPLY

(* C9: a non-blank question is refused as OutOfScope exactly when none of  *)
(* its word tokens equals an allowed-topic word or is within the           *)
(* similarity cutoff of one.                                               *)
C9_ScopeGateByTokens ==
  req.decision \in {"OutOfScope", "Proceed"} =>
     (req.decision = "OutOfScope" <=> ~TokenInScope(req.q))

---------------------------------------------------------------------------
(* SpecChunk: the chunker applied to every bounded document.               *)

DocAlphabet == {"#", "a", " ", NL}

RECURSIVE SeqsUpTo(_, _)
SeqsUpTo(S, n) ==
  IF n = 0 THEN {<<>>}
  ELSE LET shorter == SeqsUpTo(S, n - 1)
       IN  shorter \cup {Append(s, x) : s \in {t \in shorter : Len(t) = n - 1}, x \in S}

ChunkInit ==
  /\ file = NoFile
  /\ ing = IngIdle
  /\ req = ReqIdle
  /\ \E md \in SeqsUpTo(DocAlphabet, MaxDocLen), m \in 1..MaxChars :
        fn = [op |-> "chunk", phase |-> "input", md |-> md, max_chars |-> m,
              raw |-> <<>>, chunks |-> <<>>]

ChunkApply ==
  /\ fn.op = "chunk" /\ fn.phase = "input"
  /\ LET raw == chunk_markdown(fn.md, fn.max_chars)
     IN  fn' = [fn EXCEPT !.phase = "output", !.raw = raw,
                          !.chunks = CleanAll(raw)]
  /\ UNCHANGED <<file, ing, req>>

ChunkNext == ChunkApply

SpecChunk == ChunkInit /\ [][ChunkNext]_vars

(* Lines of a text that are not blank, each stripped of surrounding        *)
(* whitespace.                                                             *)
StrippedLines(s) ==
  LET ls == split(s, NL)
  IN  SelectNonBlank([i \in 1..Len(ls) |-> strip(ls[i])])

RECURSIVE Flatten(_)
Flatten(ss) == IF ss = <<>> THEN <<>> ELSE Head(ss) \o Flatten(Tail(ss))

ChunkDone == fn.op = "chunk" /\ fn.phase = "output"

(* C10: the chunker's output has no empty or whitespace-only chunk (before *)
(* and after _clean); a chunk longer than max_chars is a single line; a    *)
(* heading line is never preceded, inside its chunk, by earlier text; and  *)
(* the non-blank lines of the chunks, in order, are the non-blank lines of *)
(* the input in order (each compared without surrounding whitespace).      *)
C10_ChunkerInvariants ==
  ChunkDone =>
    /\ \A i \in 1..Len(fn.raw) :
          /\ strip(fn.raw[i]) # <<>>
          /\ fn.chunks[i] # <<>>
          /\ strip(fn.chunks[i]) = fn.chunks[i]
          /\ (Len(fn.raw[i]) > fn.max_chars => ~contains(fn.raw[i], <<NL>>))
          /\ LET ls == split(fn.raw[i], NL)
             IN  \A j \in 2..Len(ls) :
                    IsHeading(ls[j]) =>
                       \A h \in 1..(j - 1) : strip(ls[h]) = <<>>
    /\ Flatten([i \in 1..Len(fn.raw) |-> StrippedLines(fn.raw[i])])
         = StrippedLines(fn.md)

(* A document with a blank line, text, and then a heading that is longer   *)
(* than max_chars: the heading flush acts, a whitespace-only part is       *)
(* dropped and one chunk overflows.                                        *)
C10_Witness ==
  /\ ChunkDone
  /\ Len(fn.raw) >= 2
  /\ Len(split(fn.md, NL)) > Len(StrippedLines(fn.md))
  /\ \E i \in 2..Len(fn.raw) :
        IsHeading(fn.raw[i]) /\ Len(fn.raw[i]) > fn.max_chars

---------------------------------------------------------------------------
(* SpecRetrieve: ranking and context assembly over every bounded store.    *)

(* Raw chunks as _chunk_markdown may return them; the store holds their    *)
(* _clean-ed form (ingest_faqs).                                           *)
RawTexts == {<<"a">>, <<"#", "b", NL, NL, "c", NBSP>>}

StoreRecords ==
  {[text |-> clean(t), embedding |-> v] : t \in RawTexts, v \in Vectors}

RetrieveInit ==
  /\ file = NoFile
  /\ ing = IngIdle
  /\ req = ReqIdle
  /\ \E recs \in SeqsUpTo(StoreRecords, MaxStore), q \in Vectors, k \in 1..MaxK :
        fn = [op |-> "retrieve", phase |-> "input", records |-> recs,
              q |-> q, k |-> k, results |-> <<>>,
              context_block |-> <<>>, cites |-> <<>>]

RetrieveApply ==
  /\ fn.op = "retrieve" /\ fn.phase = "input"
  /\ fn' = [fn EXCEPT !.phase = "ranked",
                      !.results = Rank(fn.records, fn.q, fn.k)]
  /\ UNCHANGED <<file, ing, req>>

AssembleApply ==
  /\ fn.op = "retrieve" /\ fn.phase = "ranked"
  /\ LET b == build_context_snippets(fn.results)
     IN  fn' = [fn EXCEPT !.phase = "assembled",
                          !.context_block = b.context_block,
                          !.cites = b.cites]
  /\ UNCHANGED <<file, ing, req>>

RetrieveNext == RetrieveApply \/ AssembleApply

SpecRetrieve == RetrieveInit /\ [][RetrieveNext]_vars

Ranked == fn.op = "retrieve" /\ fn.phase \in {"ranked", "assembled"}

(* Sequences of n distinct indexes of 1..m.                                *)
InjectiveSeqs(m, n) ==
  {s \in [1..n -> 1..m] : \A i, j \in 1..n : i # j => s[i] # s[j]}

(* C4: for a non-empty store and k >= 1, retrieve returns exactly          *)
(* min(k, store size) results in non-increasing score order; the results   *)
(* are the (text, score) of distinct store records, results of equal score *)
(* keep the store's relative order, and no omitted record scores strictly  *)
(* higher than a returned one.                                             *)
C4_RetrieveTopK ==
  (Ranked /\ fn.records # <<>>) =>
    LET n   == Len(fn.records)
        res == fn.results
        sc(m) == cosine(fn.q, fn.records[m].embedding)
    IN  /\ Len(res) = Min(fn.k, n)
        /\ \A i, j \in 1..Len(res) : i < j => ScoreGE(res[i].score, res[j].score)
        /\ \E idx \in InjectiveSeqs(n, Len(res)) :
              /\ \A i \in 1..Len(res) :
                    /\ res[i].text = fn.records[idx[i]].text
                    /\ res[i].score = sc(idx[i])
              /\ \A i, j \in 1..Len(res) :
                    (i < j /\ ScoreEQ(res[i].score, res[j].score)) => idx[i] < idx[j]
              /\ \A m \in 1..n :
                    (\A i \in 1..Len(res) : idx[i] # m) =>
                       \A i \in 1..Len(res) : ~ScoreGT(sc(m), res[i].score)

(* A store larger than k holding two records of different text and equal   *)
(* score, both returned, and a record that is cut off.                     *)
C4_Witness ==
  /\ Ranked
  /\ Len(fn.records) > fn.k
  /\ \E i, j \in 1..Len(fn.results) :
        /\ i < j
        /\ ScoreEQ(fn.results[i].score, fn.results[j].score)
        /\ fn.results[i].text # fn.results[j].text
  /\ \E m \in 1..Len(fn.records) :
        ScoreGT(fn.results[Len(fn.results)].score,
                cosine(fn.q, fn.records[m].embedding))

(* The entries of a context block: its pieces between blank lines.         *)
RECURSIVE SplitBlank(_, _, _)
SplitBlank(s, done, cur) ==
  IF s = <<>> THEN Append(done, cur)
  ELSE IF Len(s) >= 2 /\ s[1] = NL /\ s[2] = NL
       THEN SplitBlank(SubSeq(s, 3, Len(s)), Append(done, cur), <<>>)
       ELSE SplitBlank(Tail(s), done, Append(cur, Head(s)))

Entries(block) == IF block = <<>> THEN <<>> ELSE SplitBlank(block, <<>>, <<>>)

HasPrefix(s, p) == Len(s) >= Len(p) /\ SubSeq(s, 1, Len(p)) = p

Assembled == fn.op = "retrieve" /\ fn.phase = "assembled"

(* C5: for N ranked results the citation list has N entries labelled [1],  *)
(* ..., [N] in order, the context block has N entries with the same labels *)
(* in the same order, entry i holds the text of result i and citation i    *)
(* its first-line preview; for N = 0 the block is the empty string and the *)
(* citation list is empty.                                                 *)
C5_CitationLabels ==
  Assembled =>
    LET N == Len(fn.results)
        e == Entries(fn.context_block)
    IN  /\ Len(fn.cites) = N
        /\ Len(e) = N
        /\ (N = 0 => fn.context_block = <<>> /\ fn.cites = <<>>)
        /\ \A i \in 1..N :
              /\ HasPrefix(fn.cites[i], Tag(i) \o <<" ">>)
              /\ HasPrefix(e[i], Tag(i) \o <<" ">>)
              /\ e[i] = Tag(i) \o <<" ">> \o fn.results[i].text
              /\ fn.cites[i] = Tag(i) \o <<" ">> \o Preview(fn.results[i].text)

(* Three results assembled, with different texts among them.               *)
C5_Witness ==
  /\ Assembled
  /\ Len(fn.results) >= 3
  /\ Len(fn.cites) >= 3
  /\ \E i, j \in 1..Len(fn.results) : fn.results[i].text # fn.results[j].text

=============================================================================
